---- MODULE Spec2Model ----
(***************************************************************************)
(* Model of the GCR (Group Code Recording) codec of src/lib.rs: the two    *)
(* lookup tables built by GCR::new and the chunked encode/decode routines  *)
(* that pack 8 nibbles into 5 bytes and unpack them again.                 *)
(*                                                                         *)
(* A u8 is an integer in 0..255.  A u64 is a bit vector, a function from   *)
(* the bit positions 0..63 (0 the least significant) to {0,1}: the 40-bit  *)
(* packed values do not fit the model checker's integers, and shifts,      *)
(* masks and the big-endian conversions are modelled bit by bit.           *)
(***************************************************************************)
EXTENDS Integers, Sequences, FiniteSets, TLC

\* ------------------------------------------------------------------ bounds

\* Longest buffer of the exhaustive short-buffer input sets.
MaxLen == 5
\* Most whole groups (4-byte chunks or 5-byte quintuples) of a multi-group input.
MaxChunks == 3
\* Callers sharing one codec in SpecShared.
NumCallers == 2

\* ------------------------------------------------------- program constants

QUINTUPLE_SIZE == 5

\* ------------------------------------------------------------ u8 arithmetic

Pow2(n) == 2 ^ n

\* Bit i of the small non-negative integer n.
Bit(n, i) == (n \div Pow2(i)) % 2

\* The integer whose bits 0..(n-1) are f[0..n-1].
RECURSIVE FromBits(_, _)
FromBits(f, n) ==
    IF n = 0 THEN 0
    ELSE (IF f[n - 1] = 1 THEN Pow2(n - 1) ELSE 0) + FromBits(f, n - 1)

\* u8 << s : bits shifted out of the byte are lost.
Shl8(x, s) == (x * Pow2(s)) % 256
\* u8 >> s
Shr8(x, s) == x \div Pow2(s)
\* u8 | u8
BitOr8(x, y) ==
    FromBits([i \in 0..7 |-> IF Bit(x, i) = 1 \/ Bit(y, i) = 1 THEN 1 ELSE 0], 8)
\* u8 & u8
BitAnd8(x, y) ==
    FromBits([i \in 0..7 |-> IF Bit(x, i) = 1 /\ Bit(y, i) = 1 THEN 1 ELSE 0], 8)

\* ----------------------------------------------------------- u64 arithmetic

U64Bits == 0..63

\* `n as u64` for a u8 (or any small non-negative integer) n.
AsU64(n) == [i \in U64Bits |-> IF i < 31 THEN Bit(n, i) ELSE 0]
\* `x as usize`, the integer value of x (x is below 2^31 wherever it is used).
AsUsize(x) == FromBits(x, 64)
\* x >> s
Shr64(x, s) == [i \in U64Bits |-> IF i + s <= 63 THEN x[i + s] ELSE 0]
\* x << s : bits shifted past bit 63 are lost.
Shl64(x, s) == [i \in U64Bits |-> IF i >= s THEN x[i - s] ELSE 0]
\* x & y
BitAnd64(x, y) == [i \in U64Bits |-> IF x[i] = 1 /\ y[i] = 1 THEN 1 ELSE 0]
\* x | y
BitOr64(x, y) == [i \in U64Bits |-> IF x[i] = 1 \/ y[i] = 1 THEN 1 ELSE 0]

\* u64::from_be_bytes(b) for a sequence b of 8 bytes: b[1] is the most significant.
from_be_bytes(b) == [i \in U64Bits |-> Bit(b[8 - (i \div 8)], i % 8)]
\* x.to_be_bytes(): the 8 bytes of x, most significant first.
to_be_bytes(x) ==
    [k \in 1..8 |-> FromBits([b \in 0..7 |-> x[(8 - k) * 8 + b]], 8)]

\* ------------------------------------------------------------ Option<Vec>

None == <<"None">>
Some(v) == <<"Some", v>>
IsSome(r) == r[1] = "Some"

\* ------------------------------------------------------------------ GCR::new

\* Mutant: the decode table starts zeroed, not marked invalid.
decode_mappings_zeroed == [i \in 0..31 |-> 0]

\* let mut decode_mappings = [0xFF; 32];
decode_mappings_init == [i \in 0..31 |-> 255]
\* let mut encode_mappings = [0u8; 16];
encode_mappings_init == [i \in 0..15 |-> 0]

\* Mutant: nibble 15 is given the code word of nibble 7.
mapping_pairs_typo ==
    << <<\b01010, 0>>,  <<\b01011, 1>>,  <<\b10010, 2>>,  <<\b10011, 3>>,
       <<\b01110, 4>>,  <<\b01111, 5>>,  <<\b10110, 6>>,  <<\b10111, 7>>,
       <<\b01001, 8>>,  <<\b11001, 9>>,  <<\b11010, 10>>, <<\b11011, 11>>,
       <<\b01101, 12>>, <<\b11101, 13>>, <<\b11110, 14>>, <<\b10111, 15>> >>

\* The (encoded, decoded) pairs, in the order GCR::new lists them.
mapping_pairs ==
    << <<\b01010, 0>>,  <<\b01011, 1>>,  <<\b10010, 2>>,  <<\b10011, 3>>,
       <<\b01110, 4>>,  <<\b01111, 5>>,  <<\b10110, 6>>,  <<\b10111, 7>>,
       <<\b01001, 8>>,  <<\b11001, 9>>,  <<\b11010, 10>>, <<\b11011, 11>>,
       <<\b01101, 12>>, <<\b11101, 13>>, <<\b11110, 14>>, <<\b10101, 15>> >>

\* for (encoded, decoded) in mapping_pairs { ... }, from pair k on.
RECURSIVE new_loop(_, _, _)
new_loop(k, dm, em) ==
    IF k > Len(mapping_pairs)
    THEN [decode_mappings |-> dm, encode_mappings |-> em]
    ELSE LET encoded == mapping_pairs[k][1]
             decoded == mapping_pairs[k][2]
         IN  new_loop(k + 1,
                      [dm EXCEPT ![encoded] = decoded],
                      [em EXCEPT ![decoded] = encoded % 256])

new == new_loop(1, decode_mappings_init, encode_mappings_init)

\* ------------------------------------------------------ decode_quintuple

\* The 5-bit field of encoded_value that starts at bit `shift`, as an index.
quintuple_at(encoded_value, shift) ==
    AsUsize(BitAnd64(Shr64(encoded_value, shift), AsU64(31)))

\* Mutant: the two nibbles of each byte are combined the wrong way round.
RECURSIVE decode_quintuple_loop_swapped(_, _, _, _)
decode_quintuple_loop_swapped(self, encoded_value, j, result) ==
    IF j >= 8 THEN Some(result)
    ELSE LET decoded_nibble_high ==
                 self.decode_mappings[
                     quintuple_at(encoded_value, 35 - j * QUINTUPLE_SIZE)]
             decoded_nibble_low ==
                 self.decode_mappings[
                     quintuple_at(encoded_value, 35 - (j + 1) * QUINTUPLE_SIZE)]
         IN  IF decoded_nibble_high = 255 \/ decoded_nibble_low = 255
             THEN None
             ELSE decode_quintuple_loop_swapped(
                      self, encoded_value, j + 2,
                      Append(result,
                             BitOr8(Shl8(decoded_nibble_low, 4), decoded_nibble_high)))

\* Mutant: a byte is rejected only when both of its nibbles are invalid.
RECURSIVE decode_quintuple_loop_both(_, _, _, _)
decode_quintuple_loop_both(self, encoded_value, j, result) ==
    IF j >= 8 THEN Some(result)
    ELSE LET decoded_nibble_high ==
                 self.decode_mappings[
                     quintuple_at(encoded_value, 35 - j * QUINTUPLE_SIZE)]
             decoded_nibble_low ==
                 self.decode_mappings[
                     quintuple_at(encoded_value, 35 - (j + 1) * QUINTUPLE_SIZE)]
         IN  IF decoded_nibble_high = 255 /\ decoded_nibble_low = 255
             THEN None
             ELSE decode_quintuple_loop_both(
                      self, encoded_value, j + 2,
                      Append(result,
                             BitOr8(Shl8(decoded_nibble_high, 4), decoded_nibble_low)))

\* for j in (0..8).step_by(2) { ... }, from j on, with the bytes pushed so far.
RECURSIVE decode_quintuple_loop(_, _, _, _)
decode_quintuple_loop(self, encoded_value, j, result) ==
    IF j >= 8 THEN Some(result)
    ELSE LET decoded_nibble_high ==
                 self.decode_mappings[
                     quintuple_at(encoded_value, 35 - j * QUINTUPLE_SIZE)]
             decoded_nibble_low ==
                 self.decode_mappings[
                     quintuple_at(encoded_value, 35 - (j + 1) * QUINTUPLE_SIZE)]
         IN  IF decoded_nibble_high = 255 \/ decoded_nibble_low = 255
             THEN None
             ELSE decode_quintuple_loop(
                      self, encoded_value, j + 2,
                      Append(result,
                             BitOr8(Shl8(decoded_nibble_high, 4), decoded_nibble_low)))

decode_quintuple(self, encoded_value) ==
    decode_quintuple_loop(self, encoded_value, 0, <<>>)

\* ----------------------------------------------------------------- decode

\* value.chunks_exact(n): chunk number i (from 0) of the whole chunks of value.
chunk_at(value, n, i) == SubSeq(value, n * i + 1, n * i + n)
\* How many whole chunks of n bytes value holds.
num_chunks_exact(value, n) == Len(value) \div n

\* Mutant: a group that fails to decode is skipped, and the rest is returned.
RECURSIVE decode_loop_skip(_, _, _, _)
decode_loop_skip(self, value, i, result) ==
    IF i >= num_chunks_exact(value, QUINTUPLE_SIZE) THEN Some(result)
    ELSE LET chunk == chunk_at(value, QUINTUPLE_SIZE, i)
             final_value == from_be_bytes(<<0, 0, 0>> \o chunk)
             res == decode_quintuple(self, final_value)
         IN  IF IsSome(res)
             THEN decode_loop_skip(self, value, i + 1, result \o res[2])
             ELSE decode_loop_skip(self, value, i + 1, result)

\* Mutant: value.chunks(5) in place of chunks_exact(5); the short last chunk is
\* padded with zero bytes and decoded like the others.
RECURSIVE decode_loop_chunks(_, _, _, _)
decode_loop_chunks(self, value, i, result) ==
    IF i * QUINTUPLE_SIZE >= Len(value) THEN Some(result)
    ELSE LET padded == value \o <<0, 0, 0, 0>>
             chunk == chunk_at(padded, QUINTUPLE_SIZE, i)
             final_value == from_be_bytes(<<0, 0, 0>> \o chunk)
             res == decode_quintuple(self, final_value)
         IN  IF IsSome(res)
             THEN decode_loop_chunks(self, value, i + 1, result \o res[2])
             ELSE None

\* for chunk in value.chunks_exact(QUINTUPLE_SIZE) { ... }, from chunk i on.
RECURSIVE decode_loop(_, _, _, _)
decode_loop(self, value, i, result) ==
    IF i >= num_chunks_exact(value, QUINTUPLE_SIZE) THEN Some(result)
    ELSE LET chunk == chunk_at(value, QUINTUPLE_SIZE, i)
             final_value == from_be_bytes(<<0, 0, 0>> \o chunk)
             res == decode_quintuple(self, final_value)
         IN  IF IsSome(res)
             THEN decode_loop(self, value, i + 1, result \o res[2])
             ELSE None

decode(self, value) == decode_loop(self, value, 0, <<>>)

\* ------------------------------------------------------ encode_quintuple

\* Mutant: the low nibble is packed above the high nibble.
RECURSIVE encode_quintuple_loop_swapped(_, _, _, _)
encode_quintuple_loop_swapped(self, decoded_value, i, acc) ==
    IF i >= 4 THEN acc
    ELSE LET shift_amount_high == 35 - (i * (QUINTUPLE_SIZE * 2))
             shift_amount_low == shift_amount_high - QUINTUPLE_SIZE
             high ==
                 Shl64(AsU64(self.encode_mappings[Shr8(decoded_value[i + 1], 4)]),
                       shift_amount_low)
             low ==
                 Shl64(AsU64(self.encode_mappings[BitAnd8(decoded_value[i + 1], 15)]),
                       shift_amount_high)
         IN  encode_quintuple_loop_swapped(self, decoded_value, i + 1,
                                           BitOr64(BitOr64(acc, high), low))

\* for i in 0..4 { ... }, from byte i (from 0) on, with the bits or-ed so far.
RECURSIVE encode_quintuple_loop(_, _, _, _)
encode_quintuple_loop(self, decoded_value, i, acc) ==
    IF i >= 4 THEN acc
    ELSE LET shift_amount_high == 35 - (i * (QUINTUPLE_SIZE * 2))
             shift_amount_low == shift_amount_high - QUINTUPLE_SIZE
             high ==
                 Shl64(AsU64(self.encode_mappings[Shr8(decoded_value[i + 1], 4)]),
                       shift_amount_high)
             low ==
                 Shl64(AsU64(self.encode_mappings[BitAnd8(decoded_value[i + 1], 15)]),
                       shift_amount_low)
         IN  encode_quintuple_loop(self, decoded_value, i + 1,
                                   BitOr64(BitOr64(acc, high), low))

encode_quintuple(self, decoded_value) ==
    encode_quintuple_loop(self, decoded_value, 0, AsU64(0))

\* ----------------------------------------------------------------- encode

\* Mutant: value.chunks(4) in place of chunks_exact(4); the short last chunk is
\* padded with zero bytes and encoded like the others.
RECURSIVE encode_loop_chunks(_, _, _, _)
encode_loop_chunks(self, value, i, result) ==
    IF i * 4 >= Len(value) THEN result
    ELSE LET padded == value \o <<0, 0, 0>>
             chunk == chunk_at(padded, 4, i)
             acc == encode_quintuple(self, chunk)
         IN  encode_loop_chunks(self, value, i + 1,
                                result \o SubSeq(to_be_bytes(acc), 4, 8))

\* for chunk in value.chunks_exact(4) { ... }, from chunk i on.
RECURSIVE encode_loop(_, _, _, _)
encode_loop(self, value, i, result) ==
    IF i >= num_chunks_exact(value, 4) THEN result
    ELSE LET chunk == chunk_at(value, 4, i)
             acc == encode_quintuple(self, chunk)
         IN  encode_loop(self, value, i + 1,
                         result \o SubSeq(to_be_bytes(acc), 4, 8))

encode(self, value) == encode_loop(self, value, 0, <<>>)

\* --------------------------------------------------------------- inputs

\* All sequences over S of length 0..n.
RECURSIVE SeqsUpTo(_, _)
SeqsUpTo(S, n) ==
    IF n = 0 THEN {<<>>}
    ELSE LET shorter == SeqsUpTo(S, n - 1)
         IN  shorter \cup {Append(s, x) : s \in {t \in shorter : Len(t) = n - 1}, x \in S}

\* The concatenation of a sequence of sequences.
RECURSIVE Flatten(_)
Flatten(ss) == IF ss = <<>> THEN <<>> ELSE Head(ss) \o Flatten(Tail(ss))

\* The 5 bytes that hold the eight 5-bit fields f[1..8], first field in the top bits.
PackFields(f) ==
    LET bit(k) == Bit(f[(k \div 5) + 1], 4 - (k % 5))
    IN  [m \in 1..5 |->
            bit(8 * m - 8) * 128 + bit(8 * m - 7) * 64 + bit(8 * m - 6) * 32
            + bit(8 * m - 5) * 16 + bit(8 * m - 4) * 8 + bit(8 * m - 3) * 4
            + bit(8 * m - 2) * 2 + bit(8 * m - 1)]

\* tests::encode_works, data; tests::decode_works, the expected bytes.
TestData == <<8, 1, 0, 1, 48, 48, 0, 0>>
\* tests::decode_works, final_data; tests::encode_works, the expected bytes.
TestFinalData == <<82, 84, 181, 41, 75, 154, 166, 165, 41, 74>>
\* The input of encode's documentation example.
DocEncodeInput == <<18, 52, 86, 120, 154, 188>>
\* decode_quintuple's documentation examples, as the eight fields of each.
DocQuintupleFields == <<30, 1, 30, 1, 30, 1, 30, 1>>
DocInvalidQuintupleFields == <<30, 30, 30, 30, 30, 30, 30, 31>>

\* Bytes of the short encode inputs: bytes of TestData.
ByteSample == {0, 8, 48}
\* 4-byte chunks of the multi-chunk encode inputs: every nibble occurs.
ChunkSample ==
    { SubSeq(TestData, 1, 4), SubSeq(TestData, 5, 8),
      <<1, 35, 69, 103>>, <<137, 171, 205, 239>>, <<255, 255, 255, 255>> }
\* Bytes left over after the last whole 4-byte chunk.
EncodeTails == { <<>>, <<255>>, <<18, 52, 86>> }
\* 4-byte chunks in which one byte takes every value.
ByteSweepChunks ==
    { [base EXCEPT ![i] = v] :
        base \in { <<0, 0, 0, 0>>, <<137, 171, 205, 239>> }, i \in 1..4, v \in 0..255 }

EncodeInputs ==
    SeqsUpTo(ByteSample, MaxLen)
    \cup { Flatten(cs) \o t : cs \in SeqsUpTo(ChunkSample, MaxChunks), t \in EncodeTails }
    \cup ByteSweepChunks
    \cup { DocEncodeInput }

EncodeQuintupleInputs == ByteSweepChunks \cup ChunkSample

\* Bytes of the short decode inputs.
DecodeByteSample == {0, 82, 255}
\* 5-byte groups in which one 5-bit field takes every value, valid or not.
FieldSweepGroups ==
    { PackFields([base EXCEPT ![j] = v]) :
        base \in { <<10, 10, 10, 10, 10, 10, 10, 10>>, <<30, 21, 29, 13, 27, 26, 25, 9>> },
        j \in 1..8, v \in 0..31 }
\* 5-byte groups of the multi-group decode inputs: three valid, two not.
GroupSample ==
    { SubSeq(TestFinalData, 1, 5), SubSeq(TestFinalData, 6, 10),
      PackFields(<<23, 22, 15, 14, 19, 18, 11, 10>>),
      <<255, 255, 255, 255, 255>>, PackFields(DocInvalidQuintupleFields) }
\* Bytes left over after the last whole 5-byte group.
DecodeTails == { <<>>, <<255>>, <<255, 255, 255, 255>> }

DecodeInputs ==
    SeqsUpTo(DecodeByteSample, MaxLen)
    \cup { Flatten(gs) \o t : gs \in SeqsUpTo(GroupSample, MaxChunks), t \in DecodeTails }
    \cup { g \o t : g \in FieldSweepGroups, t \in DecodeTails }

\* The top three bytes of a u64 handed to decode_quintuple.
UpperBytes == { <<0, 0, 0>>, <<0, 0, 1>>, <<255, 255, 255>> }
DecodeQuintupleInputs ==
    { from_be_bytes(u \o g) :
        u \in UpperBytes,
        g \in FieldSweepGroups \cup GroupSample \cup { PackFields(DocQuintupleFields) } }

\* The inputs of the callers that share one codec.
SharedEncodeInputs == { TestData, DocEncodeInput }
SharedDecodeInputs == { TestFinalData, <<255, 255, 255, 255, 255>> }
SharedEncodeQuintupleInputs == { SubSeq(DocEncodeInput, 1, 4) }
SharedDecodeQuintupleInputs ==
    { from_be_bytes(<<0, 0, 0>> \o PackFields(f)) :
        f \in { DocInvalidQuintupleFields, <<30, 21, 29, 13, 27, 26, 25, 9>> } }

\* ------------------------------------------------------------------ state

VARIABLES
    gcr,    \* the codec: NoGcr before GCR::new has run, then its two tables
    pc,     \* per caller: "idle", "running" (inside a call) or "done" (it returned)
    op,     \* per caller: the function of its current or last call
    value,  \* per caller: the argument of that call
    ret,    \* per caller: what that call returned, once pc is "done"
    fed     \* per caller: Some(x) when value is what the caller's preceding call
            \* returned for the argument x, None otherwise

vars == <<gcr, pc, op, value, ret, fed>>

NoGcr == [decode_mappings |-> <<>>, encode_mappings |-> <<>>]

InitCallers(callers) ==
    /\ gcr = NoGcr
    /\ pc = [c \in callers |-> "idle"]
    /\ op = [c \in callers |-> "none"]
    /\ value = [c \in callers |-> <<>>]
    /\ ret = [c \in callers |-> <<>>]
    /\ fed = [c \in callers |-> None]

\* let gcr = GCR::new();
New ==
    /\ gcr = NoGcr
    /\ gcr' = new
    /\ UNCHANGED <<pc, op, value, ret, fed>>

\* Caller c enters function f with argument v; from is the new value of fed[c].
Call(c, f, v, from) ==
    /\ pc' = [pc EXCEPT ![c] = "running"]
    /\ op' = [op EXCEPT ![c] = f]
    /\ value' = [value EXCEPT ![c] = v]
    /\ ret' = [ret EXCEPT ![c] = <<>>]
    /\ fed' = [fed EXCEPT ![c] = from]
    /\ UNCHANGED gcr

\* Caller c, not yet in a call, may call the constructed codec.
CanCall(c) == gcr # NoGcr /\ pc[c] = "idle"

\* Caller c leaves function f with the result r; the codec is borrowed immutably.
Return(c, f, r) ==
    /\ pc[c] = "running"
    /\ op[c] = f
    /\ pc' = [pc EXCEPT ![c] = "done"]
    /\ ret' = [ret EXCEPT ![c] = r]
    /\ UNCHANGED <<gcr, op, value, fed>>

\* gcr.encode(b), for a buffer b of inputs.
CallEncode(c, inputs) ==
    /\ CanCall(c)
    /\ \E b \in inputs : Call(c, "encode", b, None)

ReturnEncode(c) == Return(c, "encode", encode(gcr, value[c]))

\* gcr.decode(b), for a buffer b of inputs.
CallDecode(c, inputs) ==
    /\ CanCall(c)
    /\ \E b \in inputs : Call(c, "decode", b, None)

\* Mutant: a failed decode overwrites the invalid marker of code word 11111.
ReturnDecodeWriting(c) ==
    /\ pc[c] = "running"
    /\ op[c] = "decode"
    /\ pc' = [pc EXCEPT ![c] = "done"]
    /\ ret' = [ret EXCEPT ![c] = decode(gcr, value[c])]
    /\ gcr' = IF IsSome(decode(gcr, value[c])) THEN gcr
              ELSE [gcr EXCEPT !.decode_mappings[31] = 0]
    /\ UNCHANGED <<op, value, fed>>

ReturnDecode(c) == Return(c, "decode", decode(gcr, value[c]))

\* gcr.encode_quintuple(b), for a 4-byte slice b of inputs.
CallEncodeQuintuple(c, inputs) ==
    /\ CanCall(c)
    /\ \E b \in inputs : Call(c, "encode_quintuple", b, None)

ReturnEncodeQuintuple(c) ==
    Return(c, "encode_quintuple", encode_quintuple(gcr, value[c]))

\* gcr.decode_quintuple(x), for a u64 x of inputs.
CallDecodeQuintuple(c, inputs) ==
    /\ CanCall(c)
    /\ \E x \in inputs : Call(c, "decode_quintuple", x, None)

ReturnDecodeQuintuple(c) ==
    Return(c, "decode_quintuple", decode_quintuple(gcr, value[c]))

\* gcr.decode(&gcr.encode(b)): the bytes encode returned go to decode.
CallDecodeOfEncoded(c) ==
    /\ pc[c] = "done"
    /\ op[c] = "encode"
    /\ Call(c, "decode", ret[c], Some(value[c]))

\* gcr.encode(&gcr.decode(b).unwrap()): the bytes decode returned go to encode.
CallEncodeOfDecoded(c) ==
    /\ pc[c] = "done"
    /\ op[c] = "decode"
    /\ IsSome(ret[c])
    /\ Call(c, "encode", ret[c][2], Some(value[c]))

\* One caller, the broad input sets.
SingleCaller == {"main"}

Init == InitCallers(SingleCaller)

Next ==
    \/ New
    \/ \E c \in SingleCaller :
        \/ CallEncode(c, EncodeInputs)
        \/ CallDecode(c, DecodeInputs)
        \/ CallEncodeQuintuple(c, EncodeQuintupleInputs)
        \/ CallDecodeQuintuple(c, DecodeQuintupleInputs)
        \/ CallDecodeOfEncoded(c)
        \/ CallEncodeOfDecoded(c)
        \/ ReturnEncode(c)
        \/ ReturnDecode(c)
        \/ ReturnEncodeQuintuple(c)
        \/ ReturnDecodeQuintuple(c)

Spec == Init /\ [][Next]_vars

\* NumCallers callers on one shared codec, a few inputs each.
SharedCallers == 1..NumCallers

InitShared == InitCallers(SharedCallers)

NextShared ==
    \/ New
    \/ \E c \in SharedCallers :
        \/ CallEncode(c, SharedEncodeInputs)
        \/ CallDecode(c, SharedDecodeInputs)
        \/ CallEncodeQuintuple(c, SharedEncodeQuintupleInputs)
        \/ CallDecodeQuintuple(c, SharedDecodeQuintupleInputs)
        \/ CallDecodeOfEncoded(c)
        \/ CallEncodeOfDecoded(c)
        \/ ReturnEncode(c)
        \/ ReturnDecode(c)
        \/ ReturnEncodeQuintuple(c)
        \/ ReturnDecodeQuintuple(c)

SpecShared == InitShared /\ [][NextShared]_vars

\* ---------------------------------------------------------------- claims

Callers == DOMAIN pc

\* Caller c has returned from function f.
Done(c, f) == pc[c] = "done" /\ op[c] = f

\* The 16 valid code words, code word of nibble n at index n + 1.
ValidCodeWords ==
    << \b01010, \b01011, \b10010, \b10011, \b01110, \b01111, \b10110, \b10111,
       \b01001, \b11001, \b11010, \b11011, \b01101, \b11101, \b11110, \b10101 >>
CodeWords == { ValidCodeWords[n] : n \in 1..16 }

\* Nibble k (from 0) of the byte buffer b: its bytes' high and low halves in turn.
Nibble(b, k) == IF k % 2 = 0 THEN b[(k \div 2) + 1] \div 16 ELSE b[(k \div 2) + 1] % 16

\* Bit k (from 0, the most significant bit of the first byte) of 5-byte group g
\* (from 0) of the byte buffer b.
GroupBit(b, g, k) == (b[5 * g + (k \div 8) + 1] \div Pow2(7 - (k % 8))) % 2
\* 5-bit field j (from 0) of 5-byte group g of the byte buffer b.
GroupField(b, g, j) ==
    16 * GroupBit(b, g, 5 * j) + 8 * GroupBit(b, g, 5 * j + 1)
    + 4 * GroupBit(b, g, 5 * j + 2) + 2 * GroupBit(b, g, 5 * j + 3)
    + GroupBit(b, g, 5 * j + 4)
\* Some complete 5-byte group of b holds a field that is no valid code word.
HasInvalidGroup(b) ==
    \E g \in 0..((Len(b) \div 5) - 1), j \in 0..7 : GroupField(b, g, j) \notin CodeWords
\* 5-byte group g of b holds a field that is no valid code word.
GroupInvalid(b, g) == \E j \in 0..7 : GroupField(b, g, j) \notin CodeWords

\* 5-bit field j (from 0) of the u64 x: bits (39 - 5j)..(35 - 5j).
U64Field(x, j) ==
    16 * x[39 - 5 * j] + 8 * x[38 - 5 * j] + 4 * x[37 - 5 * j]
    + 2 * x[36 - 5 * j] + x[35 - 5 * j]

\* C1. Round trip: when the bytes encode returned for a buffer whose length is a
\* multiple of 4 (the empty buffer included) are handed to decode, decode
\* succeeds and returns exactly that buffer.
C1_RoundTrip ==
    \A c \in Callers :
        (Done(c, "decode") /\ IsSome(fed[c]) /\ Len(fed[c][2]) % 4 = 0)
            => ret[c] = Some(fed[c][2])

\* A three-chunk buffer with a byte of every nibble went through encode and decode.
C1_Witness ==
    \E c \in Callers :
        /\ Done(c, "decode")
        /\ fed[c] = Some(<<1, 35, 69, 103, 137, 171, 205, 239, 255, 255, 255, 255>>)
        /\ Len(value[c]) = 15
        /\ ret[c] = fed[c]

\* C2. Failure atomicity: when any complete 5-byte group of decode's input, first,
\* middle or last, holds a 5-bit field that is not one of the 16 valid code words,
\* decode returns None and none of the bytes of the valid groups before it.
C2_FailureAtomicity ==
    \A c \in Callers :
        (Done(c, "decode") /\ HasInvalidGroup(value[c])) => ret[c] = None

\* decode failed on a buffer whose first two groups are valid and whose third is not.
C2_Witness ==
    \E c \in Callers :
        /\ Done(c, "decode")
        /\ Len(value[c]) \div 5 = 3
        /\ ~GroupInvalid(value[c], 0)
        /\ ~GroupInvalid(value[c], 1)
        /\ GroupInvalid(value[c], 2)
        /\ ret[c] = None

\* C3. Table bijectivity after construction: decode_mappings[encode_mappings[n]] = n
\* for every nibble n; decode_mappings[v] is 0xFF for every 5-bit v that is not one
\* of the 16 listed code words; so exactly 16 decode entries are valid and the 16
\* encode entries are pairwise distinct.
C3_TableBijectivity ==
    gcr # NoGcr =>
        /\ \A n \in 0..15 : gcr.decode_mappings[gcr.encode_mappings[n]] = n
        /\ \A v \in (0..31) \ CodeWords : gcr.decode_mappings[v] = 255
        /\ Cardinality({ v \in 0..31 : gcr.decode_mappings[v] # 255 }) = 16
        /\ Cardinality({ gcr.encode_mappings[n] : n \in 0..15 }) = 16

\* The codec has been constructed and holds the first and the last listed pair.
C3_Witness ==
    /\ gcr # NoGcr
    /\ gcr.encode_mappings[0] = \b01010
    /\ gcr.decode_mappings[\b10101] = 15

\* C4. Encode truncation and totality: for a buffer of any length encode returns
\* bytes, never a failure; its output has length (len / 4) * 5 and equals encode of
\* the prefix of length 4 * (len / 4), so the 1 to 3 bytes after the last whole
\* 4-byte group have no influence.
C4_EncodeTruncation ==
    \A c \in Callers :
        Done(c, "encode") =>
            LET whole == 4 * (Len(value[c]) \div 4)
            IN  /\ Len(ret[c]) = (Len(value[c]) \div 4) * 5
                /\ \A k \in 1..Len(ret[c]) : ret[c][k] \in 0..255
                /\ ret[c] = encode(gcr, SubSeq(value[c], 1, whole))

\* encode returned for a buffer of two whole chunks and three bytes more.
C4_Witness ==
    \E c \in Callers :
        /\ Done(c, "encode")
        /\ Len(value[c]) = 11
        /\ SubSeq(value[c], 9, 11) = <<18, 52, 86>>
        /\ Len(ret[c]) = 10

\* C5. Decode trailing-byte discard: decode's result equals its result on the prefix
\* of length 5 * (len / 5); the 1 to 4 bytes after the last whole group are never an
\* error, whatever their value; a successful result has length (len / 5) * 4; and a
\* buffer shorter than 5 bytes, the empty one included, decodes to the empty buffer.
C5_DecodeTrailing ==
    \A c \in Callers :
        Done(c, "decode") =>
            LET whole == 5 * (Len(value[c]) \div 5)
            IN  /\ ret[c] = decode(gcr, SubSeq(value[c], 1, whole))
                /\ IsSome(ret[c]) => Len(ret[c][2]) = (Len(value[c]) \div 5) * 4
                /\ ~HasInvalidGroup(value[c]) => IsSome(ret[c])
                /\ Len(value[c]) < 5 => ret[c] = Some(<<>>)

\* decode succeeded on two valid groups followed by four bytes 0xFF.
C5_Witness ==
    \E c \in Callers :
        /\ Done(c, "decode")
        /\ Len(value[c]) = 14
        /\ SubSeq(value[c], 11, 14) = <<255, 255, 255, 255>>
        /\ IsSome(ret[c])
        /\ Len(ret[c][2]) = 8

\* C6. Encode bit layout: for a 4-byte group, field k (k = 0..7) of the 40-bit
\* value, bits (39 - 5k)..(35 - 5k), holds encode_mappings[nibble k]; no bit above
\* bit 39 is set; the 5 output bytes of encode are that value, most significant
\* byte first; and encode of the test data gives the test's bytes.
C6_EncodeBitLayout ==
    \A c \in Callers :
        /\ Done(c, "encode_quintuple") =>
            /\ \A k \in 0..7 :
                U64Field(ret[c], k) = gcr.encode_mappings[Nibble(value[c], k)]
            /\ \A i \in 40..63 : ret[c][i] = 0
        /\ Done(c, "encode") =>
            \A g \in 0..((Len(value[c]) \div 4) - 1), k \in 0..7 :
                GroupField(ret[c], g, k) =
                    gcr.encode_mappings[Nibble(chunk_at(value[c], 4, g), k)]
        /\ (Done(c, "encode") /\ value[c] = TestData) => ret[c] = TestFinalData

\* encode returned the test's bytes for the test data.
C6_Witness ==
    \E c \in Callers :
        /\ Done(c, "encode")
        /\ value[c] = TestData
        /\ fed[c] = None
        /\ ret[c] = TestFinalData

\* C7. Read-only sharing: with several callers inside encode and decode on one
\* codec in any interleaving, both tables stay as GCR::new built them, and every
\* call returns what it returns alone on a freshly constructed codec.
C7_ReadOnlySharing ==
    /\ gcr # NoGcr =>
        /\ \A n \in 0..15 : gcr.encode_mappings[n] = ValidCodeWords[n + 1]
        /\ \A v \in 0..31 :
            gcr.decode_mappings[v] =
                IF v \in CodeWords
                THEN CHOOSE n \in 0..15 : ValidCodeWords[n + 1] = v
                ELSE 255
    /\ \A c \in Callers :
        /\ Done(c, "encode") => ret[c] = encode(new, value[c])
        /\ Done(c, "decode") => ret[c] = decode(new, value[c])
        /\ Done(c, "encode_quintuple") => ret[c] = encode_quintuple(new, value[c])
        /\ Done(c, "decode_quintuple") => ret[c] = decode_quintuple(new, value[c])

\* One caller's decode failed while another caller was inside decode, which then
\* returned the test data.
C7_Witness ==
    \E c, d \in Callers :
        /\ c # d
        /\ Done(c, "decode")
        /\ ret[c] = None
        /\ pc[d] = "running"
        /\ op[d] = "decode"
        /\ value[d] = TestFinalData

\* C8. decode_quintuple on a value whose eight fields are all valid code words
\* returns Some of exactly 4 bytes, byte i being
\* (decode_mappings[field 2i] << 4) | decode_mappings[field 2i + 1]; the bits above
\* bit 39 have no say; and decode of the test's bytes gives the test data.
C8_DecodeUnit ==
    \A c \in Callers :
        /\ (Done(c, "decode_quintuple")
                /\ \A j \in 0..7 : U64Field(value[c], j) \in CodeWords)
            => /\ IsSome(ret[c])
               /\ Len(ret[c][2]) = 4
               /\ \A i \in 0..3 :
                    ret[c][2][i + 1] =
                        16 * gcr.decode_mappings[U64Field(value[c], 2 * i)]
                        + gcr.decode_mappings[U64Field(value[c], 2 * i + 1)]
        /\ (Done(c, "decode") /\ value[c] = TestFinalData) => ret[c] = Some(TestData)

\* decode_quintuple succeeded on a value with all of its top 24 bits set.
C8_Witness ==
    \E c \in Callers :
        /\ Done(c, "decode_quintuple")
        /\ \A i \in 40..63 : value[c][i] = 1
        /\ \A j \in 0..7 : U64Field(value[c], j) \in CodeWords
        /\ ret[c] = Some(<<239, 220, 186, 152>>)

\* C9. The example of decode_quintuple's documentation: the value
\* 0b11110_00001_11110_00001_11110_00001_11110_00001 decodes to
\* Some([0xF1, 0xF1, 0xF1, 0xF1]).
C9_DocExample ==
    \A c \in Callers :
        (Done(c, "decode_quintuple")
            /\ value[c] = from_be_bytes(<<0, 0, 0>> \o PackFields(DocQuintupleFields)))
            => ret[c] = Some(<<241, 241, 241, 241>>)

\* C10. Reverse round trip: when the bytes decode returned for a buffer whose
\* length is a multiple of 5 are handed to encode, encode returns that buffer.
C10_ReverseRoundTrip ==
    \A c \in Callers :
        (Done(c, "encode") /\ IsSome(fed[c]) /\ Len(fed[c][2]) % 5 = 0)
            => ret[c] = fed[c][2]

\* Three valid groups that no encode call produced went through decode and encode.
C10_Witness ==
    \E c \in Callers :
        /\ Done(c, "encode")
        /\ IsSome(fed[c])
        /\ Len(fed[c][2]) = 15
        /\ SubSeq(fed[c][2], 1, 5) = PackFields(<<23, 22, 15, 14, 19, 18, 11, 10>>)
        /\ ret[c] = fed[c][2]

====
